---- MODULE Spec2Model ----
(***************************************************************************)
(* Model of rule_optimizer.py: the rule dependency graph (Vertex,          *)
(* DependencyGraph), the construction of RuleOptimizer and its textual     *)
(* rendering (RuleOptimizer.__str__ with one worker process per query).    *)
(*                                                                         *)
(* Strings are sequences of one-character strings.  Rule ids are 0-based   *)
(* as in the source; rule id i is element i+1 of the rule sequence.        *)
(***************************************************************************)
EXTENDS Integers, Sequences, FiniteSets, TLC

\* ------------------------------------------------------------------ bounds
MaxRules == 3
MaxQueries == 2

\* ------------------------------------------------------- the input programs
Vars == {"X", "Y", "Z"}
Consts == {"a", "b", "c"}

Pred(id, args) == [id |-> id, args |-> args]
MkRule(head, predicates) == [head |-> head, predicates |-> predicates]

AncBase == MkRule(Pred("anc", <<"X", "Y">>), <<Pred("par", <<"X", "Y">>)>>)
AncRec == MkRule(Pred("anc", <<"X", "Y">>),
                 <<Pred("par", <<"X", "Z">>), Pred("anc", <<"Z", "Y">>)>>)
PFromQ == MkRule(Pred("p", <<"X">>), <<Pred("q", <<"X">>)>>)
QFromP == MkRule(Pred("q", <<"X">>), <<Pred("p", <<"X">>)>>)
SFromAnc == MkRule(Pred("s", <<"X">>), <<Pred("anc", <<"X", "Y">>)>>)

RuleCatalog == {AncBase, AncRec, PFromQ, QFromP, SFromAnc}

ParFacts == {Pred("par", <<"a", "b">>), Pred("par", <<"b", "c">>)}
FactCatalog == {ParFacts, {Pred("q", <<"a">>)}}

QueryCatalog == {Pred("anc", <<"a", "Y">>), Pred("p", <<"X">>), Pred("s", <<"X">>)}

Programs == UNION {[1..n -> RuleCatalog] : n \in 0..MaxRules}
QueryLists == {qs \in UNION {[1..n -> QueryCatalog] : n \in 0..MaxQueries} :
                 \A i, j \in 1..Len(qs) : i # j => qs[i] # qs[j]}

\* ---------------------------------------------------------------- Vertex
\* [p.id for p in rule.predicates]
BodyIds(rule) == {rule.predicates[k].id : k \in 1..Len(rule.predicates)}

\* adjacency comparing the heads of the two rules instead of head against body
adjacency_on_heads(rule, rs) == {i \in 0..(Len(rs) - 1) : rs[i + 1].head.id = rule.head.id}

\* Vertex.adjacency: the ids i of the rules r with r.head.id among the ids
\* of the body predicates of rule.
adjacency(rule, rs) == {i \in 0..(Len(rs) - 1) : rs[i + 1].head.id \in BodyIds(rule)}

\* reverse_edges matching on the argument's body, as adjacency does
reverse_edges_as_adjacency(rule, rs) ==
  {i \in 0..(Len(rs) - 1) : rs[i + 1].head.id \in BodyIds(rule)}

\* Vertex.reverse_edges: the ids i of the rules r with rule.head.id among the
\* ids of r's body predicates.
reverse_edges(rule, rs) == {i \in 0..(Len(rs) - 1) : rule.head.id \in BodyIds(rs[i + 1])}

\* Vertex.__init__
Vertex(rule, index, rs) ==
  [head |-> rule.head, predicates |-> rule.predicates, id |-> index,
   edges |-> adjacency(rule, rs), reverse |-> reverse_edges(rule, rs)]

\* ------------------------------------------------------------------ state
VARIABLES
  pc,               \* position in RuleOptimizer.__init__ / __str__
  rules,            \* datalog_program.rules.rules
  facts,            \* the base facts of datalog_program
  queries,          \* datalog_program.queries.queries
  store,            \* the fact store held by the interpreter
  graph,            \* DependencyGraph.rules: id -> Vertex
  groups,           \* the ordered rule groups evaluate_optimized_rules evaluated
  rule_evaluation,  \* RuleOptimizer.rule_evaluation
  rdbms,            \* RuleOptimizer.rdbms as an insertion-ordered list of entries
  i,                \* the index of the loop being run
  result,           \* the string built by __str__
  results,          \* the manager dict shared with the workers
  jobs              \* jobs[k]: the state of the worker process with index k

vars == <<pc, rules, facts, queries, store, graph, groups, rule_evaluation,
          rdbms, i, result, results, jobs>>

NumRules == Len(rules)

Init ==
  /\ pc = "super"
  /\ rules \in Programs
  /\ facts \in FactCatalog
  /\ queries \in QueryLists
  /\ store = {}
  /\ graph = <<>>
  /\ groups = <<>>
  /\ rule_evaluation = <<>>
  /\ rdbms = <<>>
  /\ i = 0
  /\ result = <<>>
  /\ results = <<>>
  /\ jobs = <<>>

\* ------------------------------------------------- the relational engine
\* The instance of predicate p under the assignment s of constants to variables.
Ground(p, s) ==
  [id |-> p.id,
   args |-> [k \in 1..Len(p.args) |-> IF p.args[k] \in Vars THEN s[p.args[k]] ELSE p.args[k]]]

\* evaluate one rule's body against the fact store st: the head tuples derivable.
evaluate_rule(rule, st) ==
  {Ground(rule.head, s) :
     s \in {t \in [Vars -> Consts] :
              \A k \in 1..Len(rule.predicates) : Ground(rule.predicates[k], t) \in st}}

\* one pass of every rule of rs over st
EvalPass(rs, st) == st \cup UNION {evaluate_rule(rs[k], st) : k \in 1..Len(rs)}

\* naive whole-program evaluation: every rule, every iteration, until no new fact
RECURSIVE LeastFixPoint(_, _)
LeastFixPoint(rs, st) ==
  LET next == EvalPass(rs, st)
  IN  IF next = st THEN st ELSE LeastFixPoint(rs, next)

\* evaluate_query: the tuples of the store that match the query
evaluate_query(query, st) == {Ground(query, s) : s \in [Vars -> Consts]} \cap st

\* DatalogInterpreter.__init__: load the base facts; evaluate the rules to the
\* least fixpoint only when least_fix_point is set.
InterpreterStore(rs, base, least_fix_point) ==
  IF least_fix_point THEN LeastFixPoint(rs, base) ELSE base

\* -------------------------------------------------------------- rendering
DigitChars == <<"0", "1", "2", "3", "4", "5", "6", "7", "8", "9">>

\* "{}".format(n) for a natural number n
RECURSIVE Str(_)
Str(n) == IF n < 10 THEN <<DigitChars[n + 1]>>
          ELSE Str(n \div 10) \o <<DigitChars[(n % 10) + 1]>>

\* sorted(S) for a set of integers
RECURSIVE sorted(_)
sorted(S) ==
  IF S = {} THEN <<>>
  ELSE LET m == CHOOSE x \in S : \A y \in S : x <= y
       IN  <<m>> \o sorted(S \ {m})

\* sep.join(parts)
RECURSIVE Join(_, _)
Join(parts, sep) ==
  IF Len(parts) = 0 THEN <<>>
  ELSE IF Len(parts) = 1 THEN parts[1]
  ELSE parts[1] \o sep \o Join(Tail(parts), sep)

\* "R{}".format(r)
RName(r) == <<"R">> \o Str(r)

\* the line with the neighbours in descending order
LineDescending(id, ids) ==
  LET order == sorted(ids)
  IN  RName(id) \o <<":">>
        \o Join([k \in 1..Len(order) |-> RName(order[Len(order) + 1 - k])], <<",">>)

\* "R{}:{}".format(id, ",".join("R{}".format(r) for r in sorted(ids)))
Line(id, ids) ==
  LET order == sorted(ids)
  IN  RName(id) \o <<":">> \o Join([k \in 1..Len(order) |-> RName(order[k])], <<",">>)

\* Vertex.__str__
VertexStr(v) == Line(v.id, v.edges)

\* DependencyGraph.__str__
GraphStr(g) ==
  LET keys == sorted(DOMAIN g)
  IN  Join([k \in 1..Len(keys) |-> VertexStr(g[keys[k]])], <<"\n">>) \o <<"\n">>

\* DependencyGraph.reverse
reverse(g) ==
  LET keys == sorted(DOMAIN g)
  IN  Join([k \in 1..Len(keys) |-> Line(g[keys[k]].id, g[keys[k]].reverse)], <<"\n">>)
        \o <<"\n">>

DependencyGraphTitle ==
  <<"D", "e", "p", "e", "n", "d", "e", "n", "c", "y", " ", "G", "r", "a", "p", "h", "\n">>
RuleEvaluationTitle ==
  <<"R", "u", "l", "e", " ", "E", "v", "a", "l", "u", "a", "t", "i", "o", "n", "\n">>

\* the first two lines of RuleOptimizer.__str__
Header(g, evaluation) ==
  DependencyGraphTitle \o GraphStr(g) \o <<"\n">>
    \o RuleEvaluationTitle \o evaluation \o <<"\n">>

\* the text the worker of a query leaves in the shared map; the query stands
\* for its own rendering
WorkerText(query) == <<query>>

\* rdbms[query] = value on an insertion-ordered dict
Put(d, query, value) ==
  IF \E k \in 1..Len(d) : d[k].query = query
  THEN [k \in 1..Len(d) |-> IF d[k].query = query THEN [query |-> query, value |-> value]
                             ELSE d[k]]
  ELSE Append(d, [query |-> query, value |-> value])

\* ---------------------------------------------------------------- actions
\* RuleOptimizer.__init__: super().__init__(datalog_program, least_fix_point=False)
InterpreterInit ==
  /\ pc = "super"
  /\ store' = InterpreterStore(rules, facts, FALSE)
  /\ pc' = IF NumRules = 0 THEN "evaluate" ELSE "graph"
  /\ UNCHANGED <<rules, facts, queries, graph, groups, rule_evaluation, rdbms, i,
                 result, results, jobs>>

\* DependencyGraph.__init__: one iteration of the loop over rules.rules
AddVertex ==
  /\ pc = "graph"
  /\ i < NumRules
  /\ graph' = graph @@ (i :> Vertex(rules[i + 1], i, rules))
  /\ i' = IF i + 1 = NumRules THEN 0 ELSE i + 1
  /\ pc' = IF i + 1 = NumRules THEN "evaluate" ELSE "graph"
  /\ UNCHANGED <<rules, facts, queries, store, groups, rule_evaluation, rdbms,
                 result, results, jobs>>

\* RuleOptimizer.evaluate_optimized_rules: returns the empty string; no rule is
\* evaluated and no group is formed.
evaluate_optimized_rules ==
  /\ pc = "evaluate"
  /\ rule_evaluation' = <<>>
  /\ pc' = IF Len(queries) = 0 THEN "constructed" ELSE "queries"
  /\ UNCHANGED <<rules, facts, queries, store, graph, groups, rdbms, i,
                 result, results, jobs>>

\* RuleOptimizer.__init__: one iteration of the loop over the queries
EvaluateQuery ==
  /\ pc = "queries"
  /\ i < Len(queries)
  /\ rdbms' = Put(rdbms, queries[i + 1], evaluate_query(queries[i + 1], store))
  /\ i' = IF i + 1 = Len(queries) THEN 0 ELSE i + 1
  /\ pc' = IF i + 1 = Len(queries) THEN "constructed" ELSE "queries"
  /\ UNCHANGED <<rules, facts, queries, store, graph, groups, rule_evaluation,
                 result, results, jobs>>

\* RuleOptimizer.__str__: the two header lines, the manager and its dict
StrBegin ==
  /\ pc = "constructed"
  /\ result' = Header(graph, rule_evaluation)
  /\ results' = <<>>
  /\ jobs' = <<>>
  /\ i' = 0
  /\ pc' = IF Len(rdbms) = 0 THEN "done" ELSE "start"
  /\ UNCHANGED <<rules, facts, queries, store, graph, groups, rule_evaluation, rdbms>>

\* RuleOptimizer.__str__: create and start the worker of key i
StartWorker ==
  /\ pc = "start"
  /\ i < Len(rdbms)
  /\ jobs' = jobs @@ (i :> "running")
  /\ i' = IF i + 1 = Len(rdbms) THEN 0 ELSE i + 1
  /\ pc' = IF i + 1 = Len(rdbms) THEN "join" ELSE "start"
  /\ UNCHANGED <<rules, facts, queries, store, graph, groups, rule_evaluation, rdbms,
                 result, results>>

\* _str_worker(k, query, results): store the text of the query under index k
WorkerWrite(k) ==
  /\ k \in DOMAIN jobs
  /\ jobs[k] = "running"
  /\ results' = IF k \in DOMAIN results
                THEN [results EXCEPT ![k] = WorkerText(rdbms[k + 1].query)]
                ELSE results @@ (k :> WorkerText(rdbms[k + 1].query))
  /\ jobs' = [jobs EXCEPT ![k] = "written"]
  /\ UNCHANGED <<pc, rules, facts, queries, store, graph, groups, rule_evaluation,
                 rdbms, i, result>>

\* the worker process of index k exits
WorkerExit(k) ==
  /\ k \in DOMAIN jobs
  /\ jobs[k] = "written"
  /\ jobs' = [jobs EXCEPT ![k] = "terminated"]
  /\ UNCHANGED <<pc, rules, facts, queries, store, graph, groups, rule_evaluation,
                 rdbms, i, result, results>>

\* a join that returns without waiting for the process to exit
JoinWorkerNoWait ==
  /\ pc = "join"
  /\ i < Len(rdbms)
  /\ i' = IF i + 1 = Len(rdbms) THEN 0 ELSE i + 1
  /\ pc' = IF i + 1 = Len(rdbms) THEN "read" ELSE "join"
  /\ UNCHANGED <<rules, facts, queries, store, graph, groups, rule_evaluation, rdbms,
                 result, results, jobs>>

\* RuleOptimizer.__str__: proc.join() returns once the process has exited
JoinWorker ==
  /\ pc = "join"
  /\ i < Len(rdbms)
  /\ jobs[i] = "terminated"
  /\ i' = IF i + 1 = Len(rdbms) THEN 0 ELSE i + 1
  /\ pc' = IF i + 1 = Len(rdbms) THEN "read" ELSE "join"
  /\ UNCHANGED <<rules, facts, queries, store, graph, groups, rule_evaluation, rdbms,
                 result, results, jobs>>

\* RuleOptimizer.__str__: result += results[i]; a missing key raises KeyError
ReadResult ==
  /\ pc = "read"
  /\ i < Len(rdbms)
  /\ IF i \in DOMAIN results
     THEN /\ result' = result \o results[i]
          /\ i' = IF i + 1 = Len(rdbms) THEN 0 ELSE i + 1
          /\ pc' = IF i + 1 = Len(rdbms) THEN "done" ELSE "read"
     ELSE /\ pc' = "KeyError"
          /\ UNCHANGED <<result, i>>
  /\ UNCHANGED <<rules, facts, queries, store, graph, groups, rule_evaluation, rdbms,
                 results, jobs>>

Next ==
  \/ InterpreterInit
  \/ AddVertex
  \/ evaluate_optimized_rules
  \/ EvaluateQuery
  \/ StrBegin
  \/ StartWorker
  \/ \E k \in DOMAIN jobs : WorkerWrite(k)
  \/ \E k \in DOMAIN jobs : WorkerExit(k)
  \/ JoinWorker
  \/ ReadResult

Spec == Init /\ [][Next]_vars

\* ------------------------------------------------------------ properties
RuleIds == 0..(NumRules - 1)

\* the DependencyGraph constructor has returned
Constructed == pc \notin {"super", "graph"}

\* C1: once the graph is constructed, s is in the forward edges of r exactly
\* when r is in the reverse edges of s, for all rule ids r and s.
ForwardReverseTranspose ==
  Constructed =>
    /\ DOMAIN graph = RuleIds
    /\ \A r, s \in RuleIds : (s \in graph[r].edges) <=> (r \in graph[s].reverse)

\* a constructed graph with an edge between two different rules that is not
\* matched by an edge the other way
TransposeWitness ==
  /\ Constructed
  /\ \E r, s \in DOMAIN graph :
       r # s /\ s \in graph[r].edges /\ r \in graph[s].reverse /\ r \notin graph[s].edges

RECURSIVE Split(_, _)
Split(text, sep) ==
  IF \A k \in 1..Len(text) : text[k] # sep THEN <<text>>
  ELSE LET k == CHOOSE j \in 1..Len(text) :
                  text[j] = sep /\ \A h \in 1..(j - 1) : text[h] # sep
       IN  <<SubSeq(text, 1, k - 1)>> \o Split(SubSeq(text, k + 1, Len(text)), sep)

\* the lines of a text, each ended by a newline; text after the last newline
\* is a line of its own
TextLines(text) ==
  LET pieces == Split(text, "\n")
  IN  IF pieces[Len(pieces)] = <<>> THEN SubSeq(pieces, 1, Len(pieces) - 1) ELSE pieces

IsDigit(c) == \E d \in 1..10 : DigitChars[d] = c
DigitValue(c) == (CHOOSE d \in 1..10 : DigitChars[d] = c) - 1

\* the number written by the digits, -1 when they write none
RECURSIVE ParseNat(_)
ParseNat(chars) ==
  IF Len(chars) = 0 \/ ~ IsDigit(chars[Len(chars)]) THEN -1
  ELSE IF Len(chars) = 1 THEN DigitValue(chars[1])
  ELSE LET front == ParseNat(SubSeq(chars, 1, Len(chars) - 1))
       IN  IF front <= 0 THEN -1 ELSE 10 * front + DigitValue(chars[Len(chars)])

\* the id named by R<id>, -1 when the text is no such name
ParseName(chars) ==
  IF Len(chars) >= 2 /\ chars[1] = "R" THEN ParseNat(Tail(chars)) ELSE -1

\* a line R<id>:<names separated by commas>
ParseLine(line) ==
  LET parts == Split(line, ":")
      names == IF Len(parts) = 2 /\ parts[2] # <<>> THEN Split(parts[2], ",") ELSE <<>>
  IN  [ok |-> Len(parts) = 2,
       id |-> ParseName(parts[1]),
       neighbours |-> [k \in 1..Len(names) |-> ParseName(names[k])]]

\* the text has one line per key of nb, in ascending key order, and the line
\* of key r names the members of nb[r] in ascending order; the listing of no
\* rule at all is the bare final newline
ListingOf(text, nb) ==
  LET lines == IF text = <<"\n">> THEN <<>> ELSE TextLines(text)
  IN  /\ Len(lines) = Cardinality(DOMAIN nb)
      /\ \A k \in 1..Len(lines) :
           LET l == ParseLine(lines[k])
           IN  /\ l.ok
               /\ l.id = k - 1
               /\ l.id \in DOMAIN nb
               /\ \A j \in 1..(Len(l.neighbours) - 1) : l.neighbours[j] < l.neighbours[j + 1]
               /\ {l.neighbours[j] : j \in 1..Len(l.neighbours)} = nb[l.id]

HasLine(text, line) == \E k \in 1..Len(TextLines(text)) : TextLines(text)[k] = line

Forward(g) == [r \in DOMAIN g |-> g[r].edges]
Reverse(g) == [r \in DOMAIN g |-> g[r].reverse]

\* the states in which the code renders the graph: DependencyGraph.__init__ has
\* just logged reverse(), or __str__ is about to format the graph
Rendering == pc \in {"evaluate", "constructed"}

\* rule 0 depends on rule 1 and on no other rule
ZeroDependsOnlyOnOne == 1 \in DOMAIN graph /\ graph[0].edges = {1}

\* C9 as stated: both listings hold exactly one line per rule id, ascending,
\* each R<i>: followed by the sorted neighbours; and when rule 0 depends only
\* on rule 1 the forward listing has the line R0:R1 and the reverse listing
\* has the line R1:R0.
ListingFormatAsStated ==
  Rendering =>
    /\ ListingOf(GraphStr(graph), Forward(graph))
    /\ ListingOf(reverse(graph), Reverse(graph))
    /\ ZeroDependsOnlyOnOne =>
         /\ HasLine(GraphStr(graph), <<"R", "0", ":", "R", "1">>)
         /\ HasLine(reverse(graph), <<"R", "1", ":", "R", "0">>)

\* C9 amended: both listings hold exactly one line per rule id, ascending,
\* each R<i>: followed by the sorted neighbours; when rule 0 depends only on
\* rule 1 the forward listing has the line R0:R1 and the reverse line of
\* rule 1 names R0, being exactly R1:R0 when rule 0 is the only rule that
\* depends on rule 1.
ListingFormat ==
  Rendering =>
    /\ ListingOf(GraphStr(graph), Forward(graph))
    /\ ListingOf(reverse(graph), Reverse(graph))
    /\ ZeroDependsOnlyOnOne =>
         /\ HasLine(GraphStr(graph), <<"R", "0", ":", "R", "1">>)
         /\ \E j \in 1..Len(ParseLine(TextLines(reverse(graph))[2]).neighbours) :
              ParseLine(TextLines(reverse(graph))[2]).neighbours[j] = 0
         /\ graph[1].reverse = {0} => HasLine(reverse(graph), <<"R", "1", ":", "R", "0">>)

\* three rules, rule 0 depending only on rule 1, which rule 2 depends on too
ListingWitness ==
  /\ Rendering
  /\ NumRules = 3
  /\ ZeroDependsOnlyOnOne
  /\ graph[1].reverse = {0, 2}
  /\ reverse(graph) = <<"R", "0", ":", "\n", "R", "1", ":", "R", "0", ",", "R", "2", "\n",
                        "R", "2", ":", "\n">>

\* ---- the workers of __str__
RECURSIVE Concat(_)
Concat(texts) == IF Len(texts) = 0 THEN <<>> ELSE texts[1] \o Concat(Tail(texts))

\* the texts of the first n queries, in query order
QueryTexts(n) == Concat([k \in 1..n |-> WorkerText(queries[k])])

AllJoined ==
  \A k \in 0..(Len(rdbms) - 1) : k \in DOMAIN jobs /\ jobs[k] = "terminated"

\* C10: __str__ reads no entry of the shared map before every started worker
\* has been joined, never reads an index whose worker has not finished, and
\* appends the entries in index order, so the output holds the per-query
\* texts in query order whatever the order in which the workers finish.
WorkersJoinedBeforeRead ==
  /\ pc # "KeyError"
  /\ pc = "read" =>
       /\ AllJoined
       /\ Len(rdbms) = Len(queries)
       /\ \A k \in 0..(Len(rdbms) - 1) : k \in DOMAIN results
       /\ LET read == QueryTexts(i)
          IN  /\ Len(result) >= Len(read)
              /\ SubSeq(result, Len(result) - Len(read) + 1, Len(result)) = read
  /\ pc = "done" => result = Header(graph, rule_evaluation) \o QueryTexts(Len(queries))

\* two workers, the entry of the first already appended, the second next
ReadWitness ==
  /\ pc = "read"
  /\ i = 1
  /\ Len(rdbms) = 2
  /\ result = Header(graph, rule_evaluation) \o WorkerText(queries[1])

\* ---- the evaluation of the rules
\* evaluate_optimized_rules has returned
Evaluated == pc \notin {"super", "graph", "evaluate"}

\* the rule ids reachable from the ids of S along forward edges
RECURSIVE ReachableFrom(_)
ReachableFrom(S) ==
  LET more == S \cup UNION {graph[r].edges : r \in S}
  IN  IF more = S THEN S ELSE ReachableFrom(more)

MutuallyReachable(r, s) == s \in ReachableFrom({r}) /\ r \in ReachableFrom({s})

\* C3: the groups partition the rule ids, every id in exactly one group, and
\* two rules share a group exactly when each is reachable from the other.
GroupsPartitionRules ==
  Evaluated =>
    /\ \A g \in 1..Len(groups) : groups[g] \subseteq RuleIds
    /\ \A r \in RuleIds : Cardinality({g \in 1..Len(groups) : r \in groups[g]}) = 1
    /\ \A r, s \in RuleIds :
         (\E g \in 1..Len(groups) : r \in groups[g] /\ s \in groups[g])
           <=> MutuallyReachable(r, s)

\* no rule of the program derives a tuple that the store lacks
Saturated(st) == \A k \in 1..NumRules : evaluate_rule(rules[k], st) \subseteq st

\* C5: whenever a query is about to be evaluated the fact store is saturated.
QueriesAfterFixpoint == pc = "queries" => Saturated(store)

\* C6: the store left by the evaluation of the rules equals the store of the
\* naive whole-program evaluation of the same rules from the same base facts.
OrderedEqualsNaive == Evaluated => store = LeastFixPoint(rules, facts)

Anc(x, y) == Pred("anc", <<x, y>>)

\* C8: for anc(X,Y):-par(X,Y). anc(X,Y):-par(X,Z),anc(Z,Y). over par(a,b),
\* par(b,c) there is the single group of both rule ids and exactly anc(a,b),
\* anc(b,c), anc(a,c) are derived.
AncestorScenario ==
  (Evaluated /\ rules = <<AncBase, AncRec>> /\ facts = ParFacts) =>
    /\ groups = <<{0, 1}>>
    /\ {f \in store : f.id = "anc"} = {Anc("a", "b"), Anc("b", "c"), Anc("a", "c")}

====
